---- MODULE Spec2Model ----
(***************************************************************************)
(* The indexed binary min-heap of data_structures/heap/min_heap.py.        *)
(*                                                                         *)
(* A Node object is an identity (an integer id) with a mutable priority:   *)
(* val[n] is n.val.  heap is self.heap (a Python list: slot i of the code  *)
(* is heap[i+1] here), idx_of_element is the dict self.idx_of_element.     *)
(* Every public method is one action; an exception raised by the method is *)
(* recorded in raised, its return value in ret.                            *)
(***************************************************************************)
EXTENDS Integers, Sequences, FiniteSets, TLC

VARIABLES
    heap,            \* self.heap
    idx_of_element,  \* self.idx_of_element: a function from Nodes to slots
    val,             \* the priority of every Node object the caller created
    debug,           \* Python's __debug__: FALSE when run with -O (asserts stripped)
    op,              \* the method called last
    arg,             \* its arguments, as a sequence
    ret,             \* what it returned: <<>> for None, <<n>> for Node n
    raised,          \* the exception it raised, "" when it returned normally
    present,         \* reference model: the set of Nodes put in and not yet taken out
    pure,            \* TRUE while only remove() was called since construction
    input,           \* the constructor's argument, kept while pure
    extracted,       \* the Nodes the remove() calls returned, kept while pure
    script,          \* how many steps of the usage demo the calls made so far follow
    caller_array,    \* the caller's list: the one the constructor was given
    truth,           \* the boolean a query returned (FALSE after any other call)
    \* data_structures/linked_list: a LinkedList and the Node objects made for it
    head,            \* self.head: <<>> for None, <<n>> for the Node object n
    cells,           \* the Node objects: cells[n] is [item, next], next as head is
    size,            \* self.size
    adds,            \* how many add calls were made
    removes,         \* how many remove calls were made on a non-empty list
    list_op,         \* the LinkedList method called last
    list_ret,        \* what it returned: <<>> for None, <<item>> for an item
    \* callers running methods of one MinHeap on threads of their own
    locked,          \* TRUE when the callers hold one lock around every method call
    lock,            \* who holds that lock: <<>> for nobody, <<t>> for thread t
    threads          \* per thread: the method it runs, where it is in it, its locals

heap_vars == <<heap, idx_of_element, val, debug, op, arg, ret, raised,
               present, pure, input, extracted, script, caller_array, truth>>

list_vars == <<head, cells, size, adds, removes, list_op, list_ret>>

thread_vars == <<locked, lock, threads>>

vars == <<heap_vars, list_vars, thread_vars>>

----------------------------------------------------------------------------
(* Bounds of the model. *)

MaxNodes == 3
MaxPrio == 2
MaxAdds == 4
MaxLen == 4
MaxSlot == 8

Nodes == 1..MaxNodes
Prios == 0..MaxPrio

----------------------------------------------------------------------------
(* Python values and helpers. *)

Range(s) == {s[i] : i \in DOMAIN s}

\* The sequences over S without a repeated member (lists of distinct objects).
DistinctSeqs(S) ==
    UNION {{s \in [1..n -> S] : \A i, j \in 1..n : s[i] = s[j] => i = j} :
           n \in 0..Cardinality(S)}

EmptyDict == [n \in {} |-> 0]

\* array[i] of the code, for 0 <= i < len(array).
At(array, i) == array[i + 1]

\* dict assignment d[k] = x (creates the key when absent).
DictSet(d, k, x) == [n \in DOMAIN d \cup {k} |-> IF n = k THEN x ELSE d[n]]

\* del d[k]
DictDel(d, k) == [n \in DOMAIN d \ {k} |-> d[n]]

\* The result of a method body: the list, the dict, and the exception raised ("" if none).
Outcome(array, dict, exc) == [array |-> array, idx_of_element |-> dict, raised |-> exc]

----------------------------------------------------------------------------
(* class Node *)

\* Node.__lt__(a, b) under the priorities v.
Node_lt(a, b, v) == v[a] < v[b]

\* a > b on Nodes: Node defines no __gt__, so Python evaluates the reflected b.__lt__(a).
Node_gt(a, b, v) == Node_lt(b, a, v)

----------------------------------------------------------------------------
(* class MinHeap: index arithmetic *)

\* The parent of a heap whose root is slot 1, not slot 0.
get_parent_idx_one_based(idx) == idx \div 2

get_parent_idx(idx) == (idx - 1) \div 2

get_left_child_idx(idx) == idx * 2 + 1

get_right_child_idx(idx) == idx * 2 + 2

----------------------------------------------------------------------------
(* The two swap statements shared by sift_down, sift_up and remove. *)

\* array[i], array[j] = array[j], array[i]
\* A swap that only copies slot j into slot i.
swap_list_copies(array, i, j) == [array EXCEPT ![i + 1] = array[j + 1]]

swap_list(array, i, j) ==
    [array EXCEPT ![i + 1] = array[j + 1], ![j + 1] = array[i + 1]]

\* Whether  d[array[i]], d[array[j]] = d[array[j]], d[array[i]]  raises KeyError:
\* the right-hand side reads both entries before anything is written.
swap_dict_raises(dict, array, i, j) ==
    At(array, j) \notin DOMAIN dict \/ At(array, i) \notin DOMAIN dict

\* A swap that writes the first entry only: the second target is forgotten.
swap_dict_first_only(dict, array, i, j) ==
    DictSet(dict, At(array, i), dict[At(array, j)])

\* d[array[i]], d[array[j]] = d[array[j]], d[array[i]]  on the list as it is
\* after swap_list: both values are read, then the targets are written left to right.
swap_dict(dict, array, i, j) ==
    LET first == dict[At(array, j)]
        second == dict[At(array, i)]
    IN  DictSet(DictSet(dict, At(array, i), first), At(array, j), second)

----------------------------------------------------------------------------
(* sift_down *)

\* The child choice that forgets the right child.
smallest_of_left_only(idx, array, v) ==
    LET l == get_left_child_idx(idx)
    IN  IF l < Len(array) /\ Node_lt(At(array, l), At(array, idx), v) THEN l ELSE idx

\* The child choice with <= in the second test: the right child wins a tie.
smallest_of_right_on_tie(idx, array, v) ==
    LET l == get_left_child_idx(idx)
        r == get_right_child_idx(idx)
        afterLeft == IF l < Len(array) /\ Node_lt(At(array, l), At(array, idx), v)
                     THEN l ELSE idx
    IN  IF r < Len(array) /\ ~Node_lt(At(array, afterLeft), At(array, r), v)
                          /\ Node_lt(At(array, r), At(array, idx), v)
        THEN r ELSE afterLeft

\* Lines 55-62: the slot among idx and its children sift_down swaps idx with.
smallest_of(idx, array, v) ==
    LET l == get_left_child_idx(idx)
        r == get_right_child_idx(idx)
        afterLeft == IF l < Len(array) /\ Node_lt(At(array, l), At(array, idx), v)
                     THEN l ELSE idx
    IN  IF r < Len(array) /\ Node_lt(At(array, r), At(array, afterLeft), v)
        THEN r ELSE afterLeft

RECURSIVE sift_down(_, _, _, _)
sift_down(idx, array, dict, v) ==
    LET smallest == smallest_of(idx, array, v)
    IN  IF smallest # idx
        THEN LET swapped == swap_list(array, idx, smallest)
             IN  IF swap_dict_raises(dict, swapped, idx, smallest)
                 THEN Outcome(swapped, dict, "KeyError")
                 ELSE sift_down(smallest, swapped,
                                swap_dict(dict, swapped, idx, smallest), v)
        ELSE Outcome(array, dict, "")

----------------------------------------------------------------------------
(* sift_up *)

RECURSIVE sift_up(_, _, _, _)

\* A sift_up that swaps at most once (an if where the code has a while).
sift_up_once(idx, array, dict, v) ==
    LET p == get_parent_idx(idx)
    IN  IF p >= 0 /\ idx < Len(array) /\ Node_gt(At(array, p), At(array, idx), v)
        THEN LET swapped == swap_list(array, p, idx)
             IN  Outcome(swapped, swap_dict(dict, swapped, p, idx), "")
        ELSE Outcome(array, dict, "")

sift_up(idx, array, dict, v) ==
    LET p == get_parent_idx(idx)
    IN  IF p >= 0 /\ idx >= Len(array)
        THEN Outcome(array, dict, "IndexError")
        ELSE IF p >= 0 /\ Node_gt(At(array, p), At(array, idx), v)
        THEN LET swapped == swap_list(array, p, idx)
             IN  IF swap_dict_raises(dict, swapped, p, idx)
                 THEN Outcome(swapped, dict, "KeyError")
                 ELSE sift_up(p, swapped, swap_dict(dict, swapped, p, idx), v)
        ELSE Outcome(array, dict, "")

----------------------------------------------------------------------------
(* build_heap and __init__ *)

\* for idx, i in enumerate(array): self.idx_of_element[i] = idx   (from list slot k on)
RECURSIVE enumerate_into(_, _, _)
enumerate_into(array, k, dict) ==
    IF k >= Len(array) THEN dict
    ELSE enumerate_into(array, k + 1, DictSet(dict, At(array, k), k))

\* for i in range(startFrom, -1, -1): self.sift_down(i, array)
RECURSIVE heapify_from(_, _, _, _)
heapify_from(i, array, dict, v) ==
    IF i < 0 THEN Outcome(array, dict, "")
    ELSE LET o == sift_down(i, array, dict, v)
         IN  IF o.raised # "" THEN o
             ELSE heapify_from(i - 1, o.array, o.idx_of_element, v)

\* The elements of a list whose priority no earlier element has.
RECURSIVE first_of_each_priority(_, _)
first_of_each_priority(array, v) ==
    IF array = <<>> THEN <<>>
    ELSE LET front == first_of_each_priority(SubSeq(array, 1, Len(array) - 1), v)
             x == array[Len(array)]
         IN  IF \E i \in DOMAIN front : v[front[i]] = v[x] THEN front
             ELSE Append(front, x)

\* A build_heap that tells elements apart by priority: of equal ones it keeps one.
build_heap_collapses_ties(array, dict, v) ==
    LET kept == first_of_each_priority(array, v)
    IN  heapify_from(get_parent_idx(Len(kept) - 1), kept,
                     enumerate_into(kept, 0, dict), v)

\* A build_heap that starts one slot too low, skipping the last parent.
build_heap_skips_last_parent(array, dict, v) ==
    heapify_from(get_parent_idx(Len(array) - 1) - 1, array,
                 enumerate_into(array, 0, dict), v)

build_heap(array, dict, v) ==
    LET lastIdx == Len(array) - 1
        startFrom == get_parent_idx(lastIdx)
    IN  heapify_from(startFrom, array, enumerate_into(array, 0, dict), v)

\* MinHeap(array): idx_of_element = {}, heap = build_heap(array)
MinHeap_init(array, v) == build_heap(array, EmptyDict, v)

----------------------------------------------------------------------------
(* The public methods.  Each yields the list, the dict and the priorities it  *)
(* leaves behind, its return value and the exception it raised.               *)

Result(array, dict, v, value, exc) ==
    [heap |-> array, idx_of_element |-> dict, val |-> v, ret |-> value, raised |-> exc]

\* return self.heap[0]
peek(array, dict, v) ==
    IF Len(array) = 0 THEN Result(array, dict, v, <<>>, "IndexError")
    ELSE Result(array, dict, v, <<At(array, 0)>>, "")

\* A remove that answers None on an empty heap, as LinkedList.remove does.
remove_none_when_empty(array, dict, v) ==
    IF Len(array) = 0 THEN Result(array, dict, v, <<>>, "")
    ELSE LET last == Len(array) - 1
             swapped == swap_list(array, 0, last)
             x == At(swapped, last)
             o == sift_down(0, SubSeq(swapped, 1, last),
                            DictDel(swap_dict(dict, swapped, 0, last), x), v)
         IN  Result(o.array, o.idx_of_element, v, <<x>>, o.raised)

\* A remove that forgets  del self.idx_of_element[x].
remove_without_del(array, dict, v) ==
    IF Len(array) = 0 THEN Result(array, dict, v, <<>>, "IndexError")
    ELSE LET last == Len(array) - 1
             swapped == swap_list(array, 0, last)
             x == At(swapped, last)
             o == sift_down(0, SubSeq(swapped, 1, last),
                            swap_dict(dict, swapped, 0, last), v)
         IN  Result(o.array, o.idx_of_element, v, <<x>>, o.raised)

\* A remove that pops the last slot without first swapping the root into it.
remove_without_swap(array, dict, v) ==
    IF Len(array) = 0 THEN Result(array, dict, v, <<>>, "IndexError")
    ELSE LET last == Len(array) - 1
             x == At(array, last)
             o == sift_down(0, SubSeq(array, 1, last), DictDel(dict, x), v)
         IN  Result(o.array, o.idx_of_element, v, <<x>>, o.raised)

remove(array, dict, v) ==
    IF Len(array) = 0
    THEN \* self.heap[-1] on an empty list: nothing was written yet
         Result(array, dict, v, <<>>, "IndexError")
    ELSE LET last == Len(array) - 1
             swapped == swap_list(array, 0, last)
         IN  IF swap_dict_raises(dict, swapped, 0, last)
             THEN Result(swapped, dict, v, <<>>, "KeyError")
             ELSE LET swappedDict == swap_dict(dict, swapped, 0, last)
                      x == At(swapped, last)             \* x = self.heap.pop()
                      popped == SubSeq(swapped, 1, last)
                      o == sift_down(0, popped, DictDel(swappedDict, x), v)
                  IN  IF o.raised # ""
                      THEN Result(o.array, o.idx_of_element, v, <<>>, o.raised)
                      ELSE Result(o.array, o.idx_of_element, v, <<x>>, "")

\* An is_empty that tests for one element where the code tests for none.
is_empty_off_by_one(array) == Len(array) = 1

\* return True if len(self.heap) == 0 else False
is_empty(array) == IF Len(array) = 0 THEN TRUE ELSE FALSE

\* An insert that appends and records the slot but never sifts up.
insert_without_sift(value, array, dict, v) ==
    Result(Append(array, value), DictSet(dict, value, Len(array)), v, <<>>, "")

\* An insert that refuses an element the index already holds.
insert_rejects_duplicate(value, array, dict, v) ==
    IF value \in DOMAIN dict
    THEN Result(array, dict, v, <<>>, "ValueError")
    ELSE LET appended == Append(array, value)
             o == sift_up(Len(appended) - 1, appended,
                          DictSet(dict, value, Len(appended) - 1), v)
         IN  Result(o.array, o.idx_of_element, v, <<>>, o.raised)

insert(value, array, dict, v) ==
    LET appended == Append(array, value)
        o == sift_up(Len(appended) - 1, appended,
                     DictSet(dict, value, Len(appended) - 1), v)
    IN  Result(o.array, o.idx_of_element, v, <<>>, o.raised)

\* The assert with >= where the code has >: an equal priority is let through.
assert_error_accepts_equal(key, newValue, array, dict, v) ==
    IF key \notin DOMAIN dict THEN "KeyError"
    ELSE IF dict[key] >= Len(array) THEN "IndexError"
    ELSE IF v[At(array, dict[key])] >= newValue THEN ""
    ELSE "AssertionError"

\* Lines 111-113: what evaluating the assert statement raises ("" when it passes).
assert_error(key, newValue, array, dict, v) ==
    IF key \notin DOMAIN dict THEN "KeyError"
    ELSE IF dict[key] >= Len(array) THEN "IndexError"
    ELSE IF v[At(array, dict[key])] > newValue THEN ""
    ELSE "AssertionError"

\* The assignment without the sift_up that follows it.
assign_without_sift(key, newValue, array, dict, v) ==
    Result(array, dict, [v EXCEPT ![key] = newValue], <<>>, "")

\* Lines 114-115: key.val = newValue; self.sift_up(self.idx_of_element[key])
assign_and_sift(key, newValue, array, dict, v) ==
    LET assigned == [v EXCEPT ![key] = newValue]
    IN  IF key \notin DOMAIN dict
        THEN Result(array, dict, assigned, <<>>, "KeyError")
        ELSE LET o == sift_up(dict[key], array, dict, assigned)
             IN  Result(o.array, o.idx_of_element, assigned, <<>>, o.raised)

\* A decrease_key that assigns the priority before it checks anything.
decrease_key_assigns_first(key, newValue, array, dict, v, dbg) ==
    LET exc == assert_error(key, newValue, array, dict, v)
    IN  IF dbg /\ exc # ""
        THEN Result(array, dict, [v EXCEPT ![key] = newValue], <<>>, exc)
        ELSE assign_and_sift(key, newValue, array, dict, v)

\* With assert statements enabled (dbg) a failing assert raises before any write;
\* under -O the statement is not there.
decrease_key(key, newValue, array, dict, v, dbg) ==
    LET exc == assert_error(key, newValue, array, dict, v)
    IN  IF dbg /\ exc # ""
        THEN Result(array, dict, v, <<>>, exc)
        ELSE assign_and_sift(key, newValue, array, dict, v)

----------------------------------------------------------------------------
(* data_structures/linked_list: class LinkedList *)

\* The items the callers add: those of the __len__ doctest.
Items == {"a", "b"}

\* LinkedList(): head = None, size = 0; no Node object exists yet.
LinkedList_init ==
    /\ head = <<>>
    /\ cells = <<>>
    /\ size = 0
    /\ adds = 0
    /\ removes = 0
    /\ list_op = "__init__"
    /\ list_ret = <<>>

\* return self.head is None
list_is_empty(h) == h = <<>>

\* return self.size
list_len == size

\* The number of Node objects on the chain that starts at h.
RECURSIVE Reachable(_, _)
Reachable(h, store) ==
    IF h = <<>> THEN 0 ELSE 1 + Reachable(store[h[1]].next, store)

\* A remove that decrements size on an empty list as well.
size_after_remove_unchecked(h, n) == n - 1

\* Lines 17-22: self.size after remove().
size_after_remove(h, n) == IF list_is_empty(h) THEN n ELSE n - 1

\* self.head = Node(item, self.head); self.size += 1
Add(item) ==
    /\ adds < MaxAdds
    /\ cells' = Append(cells, [item |-> item, next |-> head])
    /\ head' = <<Len(cells) + 1>>
    /\ size' = size + 1
    /\ adds' = adds + 1
    /\ removes' = removes
    /\ list_op' = "add"
    /\ list_ret' = <<>>
    /\ UNCHANGED heap_vars
    /\ UNCHANGED thread_vars

\* remove(): None on an empty list, else the head's item, the head unlinked.
ListRemove ==
    /\ head' = IF list_is_empty(head) THEN head ELSE cells[head[1]].next
    /\ list_ret' = IF list_is_empty(head) THEN <<>> ELSE <<cells[head[1]].item>>
    /\ size' = size_after_remove(head, size)
    /\ removes' = IF list_is_empty(head) THEN removes ELSE removes + 1
    /\ cells' = cells
    /\ adds' = adds
    /\ list_op' = "remove"
    /\ UNCHANGED heap_vars
    /\ UNCHANGED thread_vars

----------------------------------------------------------------------------
(* The methods of MinHeap statement by statement.  A step of a thread is    *)
(* one store into self.heap, self.idx_of_element or a Node's val, together  *)
(* with the loads the thread made since its previous store; the two targets *)
(* of a tuple assignment are two stores.  pc names the store a thread makes *)
(* next; i, j, t, x, k are its locals; an exception ends the call.          *)

Threads == {1, 2}

\* A thread that runs no method.
IdleThread ==
    [op |-> "idle", pc |-> "done", key |-> 0, newValue |-> 0,
     i |-> 0, j |-> 0, t |-> 0, x |-> 0, k |-> 0,
     start |-> 0, swaps |-> 0, exc |-> ""]

\* A thread about to execute the first statement of method name.
StartThread(name, key, newValue) ==
    [IdleThread EXCEPT !.op = name, !.pc = name, !.key = key, !.newValue = newValue]

\* No caller uses threads: whole method calls only.
NoThreads ==
    /\ locked = FALSE
    /\ lock = <<>>
    /\ threads = [t \in Threads |-> IdleThread]

\* What a step leaves: the list, the dict, the priorities and the thread's locals.
Shared(array, dict, v, me) ==
    [heap |-> array, idx_of_element |-> dict, val |-> v, me |-> me]

\* The step raises exc: nothing is stored and the call is over.
Raise(me, exc) ==
    Shared(heap, idx_of_element, val, [me EXCEPT !.pc = "done", !.exc = exc])

\* 0 <= k < len(self.heap)
InList(k) == k >= 0 /\ k < Len(heap)

\* array[k] = x
list_store(array, k, x) == [array EXCEPT ![k + 1] = x]

\* A swap of the dict that never stores into its second target.
second_target_dropped(dict, node, slot) == dict

\* The store into the second target of a dict swap (lines 66-71, 80-83, 92-95).
second_target(dict, node, slot) == DictSet(dict, node, slot)

\* sift_up(idx) and sift_down(idx) begin: idx is the slot they start from.
EnterSift(me, label, idx) ==
    [me EXCEPT !.pc = label, !.i = idx, !.start = idx, !.swaps = 0]

\* Lines 102-105: insert(value).
StepInsert(me) ==
    CASE me.pc = "insert" ->
            Shared(Append(heap, me.key), idx_of_element, val,
                   [me EXCEPT !.pc = "insert_index"])
      [] me.pc = "insert_index" ->
            Shared(heap, DictSet(idx_of_element, me.key, Len(heap) - 1), val,
                   [me EXCEPT !.pc = "insert_sift"])
      [] me.pc = "insert_sift" ->
            Shared(heap, idx_of_element, val, EnterSift(me, "up_test", Len(heap) - 1))

\* Lines 76-85: sift_up, the slot idx of the code being me.i and p being me.j.
StepUp(me) ==
    CASE me.pc = "up_test" ->
            LET p == get_parent_idx(me.i)
            IN  IF ~(p >= 0)
                THEN Shared(heap, idx_of_element, val, [me EXCEPT !.pc = "done"])
                ELSE IF ~InList(p) \/ ~InList(me.i) THEN Raise(me, "IndexError")
                ELSE IF Node_gt(At(heap, p), At(heap, me.i), val)
                THEN Shared(list_store(heap, p, At(heap, me.i)), idx_of_element, val,
                            [me EXCEPT !.pc = "up_store", !.j = p, !.t = At(heap, p)])
                ELSE Shared(heap, idx_of_element, val, [me EXCEPT !.pc = "done"])
      [] me.pc = "up_store" ->
            IF ~InList(me.i) THEN Raise(me, "IndexError")
            ELSE Shared(list_store(heap, me.i, me.t), idx_of_element, val,
                        [me EXCEPT !.pc = "up_index"])
      [] me.pc = "up_index" ->
            IF ~InList(me.i) \/ ~InList(me.j) THEN Raise(me, "IndexError")
            ELSE IF {At(heap, me.i), At(heap, me.j)} \subseteq DOMAIN idx_of_element
            THEN Shared(heap,
                        DictSet(idx_of_element, At(heap, me.j),
                                idx_of_element[At(heap, me.i)]),
                        val,
                        [me EXCEPT !.pc = "up_index2",
                                   !.t = idx_of_element[At(heap, me.j)]])
            ELSE Raise(me, "KeyError")
      [] me.pc = "up_index2" ->
            IF ~InList(me.i) THEN Raise(me, "IndexError")
            ELSE Shared(heap, second_target(idx_of_element, At(heap, me.i), me.t), val,
                        [me EXCEPT !.pc = "up_test", !.i = me.j,
                                   !.swaps = me.swaps + 1])

\* sift_down(idx) returned: build_heap's loop of lines 47-48 goes on to the
\* slot before, every other caller is done.
AfterSiftDown(me) ==
    IF me.op = "build" /\ me.k > 0
    THEN [EnterSift(me, "down_test", me.k - 1) EXCEPT !.k = me.k - 1]
    ELSE [me EXCEPT !.pc = "done"]

\* Lines 53-74: sift_down, idx being me.i and smallest being me.j.
StepDown(me) ==
    CASE me.pc = "down_test" ->
            LET smallest == smallest_of(me.i, heap, val)
            IN  IF smallest # me.i
                THEN Shared(list_store(heap, me.i, At(heap, smallest)),
                            idx_of_element, val,
                            [me EXCEPT !.pc = "down_store", !.j = smallest,
                                       !.t = At(heap, me.i)])
                ELSE Shared(heap, idx_of_element, val, AfterSiftDown(me))
      [] me.pc = "down_store" ->
            IF ~InList(me.j) THEN Raise(me, "IndexError")
            ELSE Shared(list_store(heap, me.j, me.t), idx_of_element, val,
                        [me EXCEPT !.pc = "down_index"])
      [] me.pc = "down_index" ->
            IF ~InList(me.i) \/ ~InList(me.j) THEN Raise(me, "IndexError")
            ELSE IF {At(heap, me.i), At(heap, me.j)} \subseteq DOMAIN idx_of_element
            THEN Shared(heap,
                        DictSet(idx_of_element, At(heap, me.i),
                                idx_of_element[At(heap, me.j)]),
                        val,
                        [me EXCEPT !.pc = "down_index2",
                                   !.t = idx_of_element[At(heap, me.i)]])
            ELSE Raise(me, "KeyError")
      [] me.pc = "down_index2" ->
            IF ~InList(me.j) THEN Raise(me, "IndexError")
            ELSE Shared(heap, second_target(idx_of_element, At(heap, me.j), me.t), val,
                        [me EXCEPT !.pc = "down_test", !.i = me.j,
                                   !.swaps = me.swaps + 1])

\* Lines 90-100: remove(); self.heap[-1] is the slot len(self.heap) - 1.
StepRemove(me) ==
    LET last == Len(heap) - 1
    IN  IF me.pc # "remove_del" /\ ~InList(last) THEN Raise(me, "IndexError")
        ELSE CASE me.pc = "remove" ->
                    Shared(list_store(heap, 0, At(heap, last)), idx_of_element, val,
                           [me EXCEPT !.pc = "remove_store", !.t = At(heap, 0)])
               [] me.pc = "remove_store" ->
                    Shared(list_store(heap, last, me.t), idx_of_element, val,
                           [me EXCEPT !.pc = "remove_index"])
               [] me.pc = "remove_index" ->
                    IF {At(heap, 0), At(heap, last)} \subseteq DOMAIN idx_of_element
                    THEN Shared(heap,
                                DictSet(idx_of_element, At(heap, 0),
                                        idx_of_element[At(heap, last)]),
                                val,
                                [me EXCEPT !.pc = "remove_index2",
                                           !.t = idx_of_element[At(heap, 0)]])
                    ELSE Raise(me, "KeyError")
               [] me.pc = "remove_index2" ->
                    Shared(heap, second_target(idx_of_element, At(heap, last), me.t),
                           val, [me EXCEPT !.pc = "remove_pop"])
               [] me.pc = "remove_pop" ->
                    Shared(SubSeq(heap, 1, last), idx_of_element, val,
                           [me EXCEPT !.pc = "remove_del", !.x = At(heap, last)])
               [] me.pc = "remove_del" ->
                    IF me.x \in DOMAIN idx_of_element
                    THEN Shared(heap, DictDel(idx_of_element, me.x), val,
                                EnterSift(me, "down_test", 0))
                    ELSE Raise(me, "KeyError")

\* Lines 110-115: decrease_key(key, newValue).
StepDecreaseKey(me) ==
    CASE me.pc = "decrease_key" ->
            LET exc == assert_error(me.key, me.newValue, heap, idx_of_element, val)
            IN  IF debug /\ exc # "" THEN Raise(me, exc)
                ELSE Shared(heap, idx_of_element,
                            [val EXCEPT ![me.key] = me.newValue],
                            [me EXCEPT !.pc = "decrease_key_sift"])
      [] me.pc = "decrease_key_sift" ->
            IF me.key \in DOMAIN idx_of_element
            THEN Shared(heap, idx_of_element, val,
                        EnterSift(me, "up_test", idx_of_element[me.key]))
            ELSE Raise(me, "KeyError")

\* Lines 41-50: build_heap(array); me.i counts enumerate's position, me.k is
\* the slot the loop of lines 47-48 is at.
StepBuild(me) ==
    IF me.i < Len(heap)
    THEN Shared(heap, DictSet(idx_of_element, At(heap, me.i), me.i), val,
                [me EXCEPT !.i = me.i + 1])
    ELSE LET startFrom == get_parent_idx(Len(heap) - 1)
         IN  Shared(heap, idx_of_element, val,
                    IF startFrom >= 0
                    THEN [EnterSift(me, "down_test", startFrom) EXCEPT !.k = startFrom]
                    ELSE [me EXCEPT !.pc = "done"])

\* The next step of the thread whose locals are me.
ThreadStep(me) ==
    CASE me.pc \in {"insert", "insert_index", "insert_sift"} -> StepInsert(me)
      [] me.pc \in {"up_test", "up_store", "up_index", "up_index2"} -> StepUp(me)
      [] me.pc \in {"down_test", "down_store", "down_index", "down_index2"} ->
            StepDown(me)
      [] me.pc \in {"remove", "remove_store", "remove_index", "remove_index2",
                    "remove_pop", "remove_del"} -> StepRemove(me)
      [] me.pc \in {"decrease_key", "decrease_key_sift"} -> StepDecreaseKey(me)
      [] me.pc = "build" -> StepBuild(me)

\* Thread t makes its next step.  Under the callers' lock it may do so only
\* while no other thread is inside a method, and it keeps the lock until its
\* method has returned or raised.
Step(t) ==
    /\ threads[t].pc # "done"
    /\ locked => lock \in {<<>>, <<t>>}
    /\ LET r == ThreadStep(threads[t])
       IN  /\ heap' = r.heap
           /\ idx_of_element' = r.idx_of_element
           /\ val' = r.val
           /\ caller_array' = r.heap
           /\ threads' = [threads EXCEPT ![t] = r.me]
           /\ lock' = IF locked /\ r.me.pc # "done" THEN <<t>> ELSE <<>>
    /\ UNCHANGED <<debug, op, arg, ret, raised, present, pure, input, extracted,
                   script, truth, locked>>
    /\ UNCHANGED list_vars

----------------------------------------------------------------------------
(* The usage demo of lines 118-148 and the doctest of lines 18-26. *)

DemoNames == <<"R", "B", "A", "X", "E">>

\* r = Node(-1, "R"), b = Node(6, "B"), a = Node(3, "A"), x = Node(1, "X"), e = Node(4, "E")
DemoVals == <<-1, 6, 3, 1, 4>>

DemoNode(name) == CHOOSE k \in DOMAIN DemoNames : DemoNames[k] = name

\* The list [r, b, a, x, e].
DemoArray == [k \in DOMAIN DemoNames |-> k]

\* The new priorities the demo's decrease_key calls draw from.
DemoPrios == {-17}

CallOf(name, args) == [op |-> name, arg |-> args]

\* peek, decrease_key(b, -17), peek, then remove until the heap is empty.
Script ==
    <<CallOf("peek", <<>>), CallOf("decrease_key", <<DemoNode("B"), -17>>),
      CallOf("peek", <<>>)>>
    \o [k \in DOMAIN DemoNames |-> CallOf("remove", <<>>)]

----------------------------------------------------------------------------
(* The state machine. *)

\* The state MinHeap(array) leaves, the Nodes having the priorities v.
Construct(array, v, dbg, scripted) ==
    LET o == MinHeap_init(array, v)
    IN  /\ heap = o.array
        /\ idx_of_element = o.idx_of_element
        /\ val = v
        /\ debug = dbg
        /\ op = "__init__"
        /\ arg = array
        /\ ret = <<>>
        /\ raised = o.raised
        /\ present = Range(array)
        /\ pure = TRUE
        /\ input = array
        /\ extracted = <<>>
        /\ script = IF scripted THEN 0 ELSE -1
        \* build_heap heapifies the list it was given in place and returns it, and
        \* __init__ keeps it as self.heap: the caller's list and the heap are one object.
        /\ caller_array = o.array
        /\ truth = FALSE

\* A call of method name with arguments args whose body yields r.
Call(name, args, r) ==
    /\ heap' = r.heap
    /\ idx_of_element' = r.idx_of_element
    /\ val' = r.val
    /\ ret' = r.ret
    /\ raised' = r.raised
    /\ op' = name
    /\ arg' = args
    /\ debug' = debug
    /\ present' = IF r.raised # "" THEN present
                  ELSE IF name = "insert" THEN present \cup Range(args)
                  ELSE IF name = "remove" THEN present \ Range(r.ret)
                  ELSE present
    /\ pure' = (pure /\ name = "remove" /\ r.raised = "")
    /\ input' = IF pure' THEN input ELSE <<>>
    /\ extracted' = IF pure' THEN extracted \o r.ret ELSE <<>>
    /\ script' = IF /\ script >= 0
                    /\ script < Len(Script)
                    /\ Script[script + 1] = CallOf(name, args)
                 THEN script + 1 ELSE -1
    /\ caller_array' = r.heap
    /\ truth' = (name = "is_empty" /\ is_empty(r.heap))
    /\ UNCHANGED list_vars
    /\ UNCHANGED thread_vars

Peek == Call("peek", <<>>, peek(heap, idx_of_element, val))

Remove == Call("remove", <<>>, remove(heap, idx_of_element, val))

IsEmpty == Call("is_empty", <<>>, Result(heap, idx_of_element, val, <<>>, ""))

Insert(value) == Call("insert", <<value>>, insert(value, heap, idx_of_element, val))

DecreaseKey(key, newValue) ==
    Call("decrease_key", <<key, newValue>>,
         decrease_key(key, newValue, heap, idx_of_element, val, debug))

\* The caller's Nodes that are not in the heap: the ones insert may be given.
Absent == DOMAIN val \ Range(heap)

\* Any heap over the model's Nodes, then any calls; assert statements are enabled.
Init ==
    /\ \E a \in DistinctSeqs(Nodes), v \in [Nodes -> Prios] :
           Construct(a, v, TRUE, FALSE)
    /\ LinkedList_init
    /\ NoThreads

Next ==
    \/ Peek
    \/ Remove
    \/ IsEmpty
    \/ \E value \in Absent : Insert(value)
    \/ \E key \in DOMAIN val, newValue \in Prios : DecreaseKey(key, newValue)

Spec == Init /\ [][Next]_vars

\* The demo's heap, then any calls on the demo's Nodes.
InitDemo ==
    /\ Construct(DemoArray, DemoVals, TRUE, TRUE)
    /\ LinkedList_init
    /\ NoThreads

NextDemo ==
    \/ Peek
    \/ Remove
    \/ IsEmpty
    \/ \E value \in Absent : Insert(value)
    \/ \E key \in DOMAIN val, newValue \in DemoPrios : DecreaseKey(key, newValue)

SpecDemo == InitDemo /\ [][NextDemo]_vars

\* As Spec, but run with python -O: assert statements are compiled out.
InitOptimized ==
    /\ \E a \in DistinctSeqs(Nodes), v \in [Nodes -> Prios] :
           Construct(a, v, FALSE, FALSE)
    /\ LinkedList_init
    /\ NoThreads

SpecOptimized == InitOptimized /\ [][Next]_vars

\* A LinkedList beside an empty heap that is never called: any adds and removes.
InitList ==
    /\ Construct(<<>>, [n \in Nodes |-> 0], TRUE, FALSE)
    /\ LinkedList_init
    /\ NoThreads

NextList ==
    \/ \E item \in Items : Add(item)
    \/ ListRemove

SpecList == InitList /\ [][NextList]_vars

\* The calls a thread may be given: remove(), insert of a Node that is not in
\* the heap, decrease_key of any Node to a priority of the demo.
ThreadCalls ==
    {StartThread("remove", 0, 0)}
    \cup {StartThread("insert", value, 0) : value \in Absent}
    \cup {StartThread("decrease_key", key, newValue) :
              key \in DOMAIN val, newValue \in DemoPrios}

\* Two threads, each calling one mutating method of a heap built from the first
\* Nodes of the demo's list; the callers either share one lock or none.  The two
\* never insert the same Node.
InitThreads ==
    /\ \E n \in 0..Len(DemoArray) :
           Construct(SubSeq(DemoArray, 1, n), DemoVals, TRUE, FALSE)
    /\ LinkedList_init
    /\ locked \in BOOLEAN
    /\ lock = <<>>
    /\ \E c1, c2 \in ThreadCalls :
           /\ ~(c1.op = "insert" /\ c1 = c2)
           /\ threads = [t \in Threads |-> IF t = 1 THEN c1 ELSE c2]

NextThreads == \E t \in Threads : Step(t)

SpecThreads == InitThreads /\ [][NextThreads]_vars

\* The state in which MinHeap(array) begins: the caller's list as it was given,
\* the empty dict of line 29.
Unbuilt(array, v) ==
    /\ heap = array
    /\ idx_of_element = EmptyDict
    /\ val = v
    /\ debug = TRUE
    /\ op = "__init__"
    /\ arg = array
    /\ ret = <<>>
    /\ raised = ""
    /\ present = Range(array)
    /\ pure = TRUE
    /\ input = array
    /\ extracted = <<>>
    /\ script = -1
    /\ caller_array = array
    /\ truth = FALSE

\* One thread alone: it either builds the heap of any list of demo Nodes or
\* makes one call on the heap built of it.  A call that has begun goes on.
InitSteps ==
    /\ LinkedList_init
    /\ locked = FALSE
    /\ lock = <<>>
    /\ \E array \in DistinctSeqs(DOMAIN DemoNames) :
           \/ /\ Unbuilt(array, DemoVals)
              /\ threads = [t \in Threads |->
                               IF t = 1 THEN StartThread("build", 0, 0) ELSE IdleThread]
           \/ /\ Construct(array, DemoVals, TRUE, FALSE)
              /\ \E c \in ThreadCalls :
                     threads = [t \in Threads |-> IF t = 1 THEN c ELSE IdleThread]

SpecSteps == InitSteps /\ [][NextThreads]_vars /\ WF_vars(NextThreads)

\* A heap built from the first Nodes of the demo's list, then inserts of any
\* demo Node, in the heap already or not, while the list is shorter than MaxLen,
\* and removes.
InitDuplicate ==
    /\ \E n \in 0..Len(DemoArray) :
           Construct(SubSeq(DemoArray, 1, n), DemoVals, TRUE, FALSE)
    /\ LinkedList_init
    /\ NoThreads

NextDuplicate ==
    \/ \E value \in DOMAIN val : Len(heap) < MaxLen /\ Insert(value)
    \/ Remove

SpecDuplicate == InitDuplicate /\ [][NextDuplicate]_vars

----------------------------------------------------------------------------
(* Properties of the heap after construction and whole calls. *)

\* The priorities of the Nodes of a list, in list order.
PrioritiesOf(s) == [i \in DOMAIN s |-> val[s[i]]]

NonDecreasing(s) == \A i, j \in DOMAIN s : i < j => s[i] <= s[j]

IsPermutation(s, t) ==
    /\ Len(s) = Len(t)
    /\ \A x \in Range(s) \cup Range(t) :
           Cardinality({i \in DOMAIN s : s[i] = x}) = Cardinality({i \in DOMAIN t : t[i] = x})

\* The heap, the index and every priority are what they were before the step.
HeapUntouched == heap' = heap /\ idx_of_element' = idx_of_element /\ val' = val

\* C1: after construction from distinct elements and any sequence of insert (of an
\* absent element), remove and decrease_key calls, every non-root slot i holds a
\* priority >= the priority at slot (i-1)//2.
C1_HeapOrder ==
    \A i \in 1..(Len(heap) - 1) : val[At(heap, i)] >= val[At(heap, (i - 1) \div 2)]

\* A decrease_key brought its Node from a lower slot of a full heap to the root.
C1_Witness ==
    /\ op = "decrease_key" /\ raised = ""
    /\ Len(heap) = MaxNodes
    /\ At(heap, 0) = arg[1]
    /\ \A i \in 1..(Len(heap) - 1) : val[At(heap, i)] > val[arg[1]]

\* C2: after construction and after every call, every element e in the heap list
\* has an index entry, and heap[idx_of_element[e]] is e.
C2_IndexConsistent ==
    \A e \in Range(heap) :
        /\ e \in DOMAIN idx_of_element
        /\ idx_of_element[e] \in 0..(Len(heap) - 1)
        /\ At(heap, idx_of_element[e]) = e

\* A remove left two Nodes behind, the former last one now at the root.
C2_Witness ==
    /\ op = "remove" /\ raised = ""
    /\ Len(heap) = MaxNodes - 1
    /\ val[At(heap, 0)] < val[At(heap, 1)]

\* C3: whenever the heap is non-empty, peek() returns an element that is in the
\* heap (by the reference set present) and whose priority is <= every priority there.
C3_PeekIsMinimum ==
    (op = "peek" /\ present # {}) =>
        /\ raised = ""
        /\ Len(ret) = 1
        /\ ret[1] \in present
        /\ \A e \in present : val[ret[1]] <= val[e]

\* peek() answered on a full heap where not all priorities are equal.
C3_Witness ==
    /\ op = "peek" /\ raised = ""
    /\ Cardinality(present) = MaxNodes
    /\ \E e \in present : val[ret[1]] < val[e]

\* C4: for a heap built from distinct elements, the priorities the successive
\* remove() calls return are non-decreasing, and the elements returned are input
\* elements, each once: together with what is left in the heap they are exactly
\* the input, so when the heap is empty they are a permutation of it.
C4_SortedExtraction ==
    pure =>
        /\ NonDecreasing(PrioritiesOf(extracted))
        /\ IsPermutation(extracted \o heap, input)
        /\ heap = <<>> => IsPermutation(extracted, input)

\* A full heap with a tie and a strictly larger priority was emptied by removes.
C4_Witness ==
    /\ pure /\ heap = <<>>
    /\ Len(extracted) = MaxNodes
    /\ extracted # input
    /\ \E i, j \in DOMAIN extracted : i # j /\ val[extracted[i]] = val[extracted[j]]
    /\ \E i, j \in DOMAIN extracted : val[extracted[i]] < val[extracted[j]]

\* C5: an insert of an absent element that returns grows the heap list and the
\* index by exactly one entry; a remove on a non-empty heap shrinks both by one.
C5_SizeConservation ==
    [][/\ (op' = "insert" /\ raised' = "") =>
              /\ Len(heap') = Len(heap) + 1
              /\ Cardinality(DOMAIN idx_of_element') =
                     Cardinality(DOMAIN idx_of_element) + 1
       /\ (op' = "remove" /\ Len(heap) > 0) =>
              /\ raised' = ""
              /\ Len(heap') = Len(heap) - 1
              /\ Cardinality(DOMAIN idx_of_element') =
                     Cardinality(DOMAIN idx_of_element) - 1]_vars

\* A remove returned and left one element less than the model's Nodes.
C5_Witness ==
    /\ op = "remove" /\ raised = ""
    /\ Len(heap) = MaxNodes - 1
    /\ Cardinality(DOMAIN idx_of_element) = MaxNodes - 1

\* C6: with assert statements enabled, decrease_key(e, p) on a present element e
\* with p >= e's priority raises (AssertionError) and leaves the heap list, the
\* index and every priority as they were.
C6_RejectsNonDecrease ==
    [][(/\ debug
        /\ op' = "decrease_key"
        /\ arg'[1] \in Range(heap)
        /\ arg'[2] >= val[arg'[1]]) =>
           (raised' = "AssertionError" /\ HeapUntouched)]_vars

\* decrease_key was refused for a present element given its own priority.
C6_Witness ==
    /\ op = "decrease_key" /\ raised = "AssertionError"
    /\ arg[1] \in Range(heap)
    /\ arg[2] = val[arg[1]]
    /\ Len(heap) >= 2

\* C7: with assert statements enabled, decrease_key(e, p) for an element e that is
\* not in the heap raises (KeyError) and leaves the heap list, the index and every
\* priority, e's included, as they were.
C7_RejectsAbsentElement ==
    [][(/\ debug
        /\ op' = "decrease_key"
        /\ arg'[1] \notin Range(heap)) =>
           (raised' = "KeyError" /\ HeapUntouched)]_vars

\* decrease_key was refused for an absent element given a strictly smaller priority.
C7_Witness ==
    /\ op = "decrease_key" /\ raised = "KeyError"
    /\ arg[1] \notin Range(heap)
    /\ arg[2] < val[arg[1]]
    /\ heap # <<>>

\* C8: peek() and remove() on an empty heap raise (IndexError) and return nothing,
\* the heap list and the index stay empty and the priorities unchanged; an insert
\* right after the failed call yields the one-element heap with its index entry.
C8_EmptyHeapErrors ==
    [][/\ (op' \in {"peek", "remove"} /\ heap = <<>>) =>
              /\ raised' = "IndexError"
              /\ ret' = <<>>
              /\ heap' = <<>>
              /\ DOMAIN idx_of_element' = {}
              /\ HeapUntouched
       /\ (op \in {"peek", "remove"} /\ raised = "IndexError" /\ op' = "insert") =>
              /\ raised' = ""
              /\ heap' = arg'
              /\ DOMAIN idx_of_element' = Range(arg')
              /\ idx_of_element'[arg'[1]] = 0]_vars

\* remove() failed on a heap that held elements at construction.
C8_Witness ==
    /\ op = "remove" /\ raised = "IndexError"
    /\ heap = <<>> /\ DOMAIN idx_of_element = {}
    /\ present = {}

\* C9: for every input list of distinct elements (the empty and the one-element
\* list included) the constructor leaves a permutation of the input that satisfies
\* the min-heap property at every non-root slot, with idx_of_element mapping
\* exactly the input's elements, each to its slot.
C9_Construction ==
    op = "__init__" =>
        /\ raised = ""
        /\ IsPermutation(heap, arg)
        /\ \A i \in 1..(Len(heap) - 1) :
               val[At(heap, get_parent_idx(i))] <= val[At(heap, i)]
        /\ DOMAIN idx_of_element = Range(arg)
        /\ \A i \in 0..(Len(heap) - 1) : idx_of_element[At(heap, i)] = i

\* A full input list that heapify had to reorder.
C9_Witness ==
    /\ op = "__init__"
    /\ Len(arg) = MaxNodes
    /\ heap # arg

\* The priorities the demo's five remove() calls return, in order.
DemoRemoved == <<-17, -1, 1, 3, 4>>

\* C10: on the heap built from R,B,A,X,E with priorities -1,6,3,1,4, peek() returns
\* R; decrease_key(B, -17) then succeeds and peek() returns B; the five remove()
\* calls that follow return priorities -17, -1, 1, 3, 4 and leave the heap empty.
C10_DemoScenario ==
    /\ script = 1 => (raised = "" /\ ret = <<DemoNode("R")>>)
    /\ script = 2 => (raised = "" /\ val[DemoNode("B")] = -17)
    /\ script = 3 => (raised = "" /\ ret = <<DemoNode("B")>>)
    /\ \A k \in DOMAIN DemoRemoved :
           script = 3 + k => (raised = "" /\ Len(ret) = 1 /\ val[ret[1]] = DemoRemoved[k])
    /\ script = Len(Script) => (heap = <<>> /\ DOMAIN idx_of_element = {})

\* The whole demo was played.
C10_Witness == script = Len(Script) /\ op = "remove" /\ raised = ""

\* C11: after construction and any calls the keys of idx_of_element are exactly
\* the elements in the heap list (and the reference set); the element a remove()
\* returned has no entry.
C11_NoStaleEntries ==
    /\ DOMAIN idx_of_element = Range(heap)
    /\ DOMAIN idx_of_element = present
    /\ (op = "remove" /\ raised = "") => ret[1] \notin DOMAIN idx_of_element

\* A remove returned an element and every other element kept its entry.
C11_Witness ==
    /\ op = "remove" /\ raised = ""
    /\ ret[1] \notin DOMAIN idx_of_element
    /\ Cardinality(DOMAIN idx_of_element) = MaxNodes - 1

\* C12: the heap list is not the caller's list: while only construction and
\* remove() calls happened the caller's list is still the list as it was passed,
\* and no insert or remove changes it.
C12_CallerListUntouched ==
    /\ pure => caller_array = input
    /\ [][op' \in {"insert", "remove"} => caller_array' = caller_array]_vars

\* C14: peek() and is_empty() leave the heap list, the index and every priority
\* unchanged, and is_empty() returns True exactly when the list holds no element.
C14_PureQueries ==
    [][op' \in {"peek", "is_empty"} =>
           /\ HeapUntouched
           /\ op' = "is_empty" => (raised' = "" /\ (truth' <=> Len(heap) = 0))]_vars

\* is_empty() answered True on a heap that removes had emptied.
C14_Witness ==
    /\ op = "is_empty" /\ truth
    /\ heap = <<>> /\ present = {}

\* A slot and the slots above it on the way to the root.
RECURSIVE AncestorsOrSelf(_)
AncestorsOrSelf(slot) ==
    IF slot <= 0 THEN {slot} ELSE {slot} \cup AncestorsOrSelf((slot - 1) \div 2)

\* C15: decrease_key(e, p) with e present and p < e's priority returns, sets e's
\* priority to p and leaves e in its slot or in a slot above it; when p is below
\* every other priority in the heap, e is at slot 0 and peek() returns e.
C15_DecreaseKeyMovesUp ==
    [][(/\ op' = "decrease_key"
        /\ arg'[1] \in Range(heap)
        /\ arg'[2] < val[arg'[1]]) =>
           LET e == arg'[1]
               p == arg'[2]
           IN  /\ raised' = ""
               /\ val'[e] = p
               /\ idx_of_element'[e] \in AncestorsOrSelf(idx_of_element[e])
               /\ At(heap', idx_of_element'[e]) = e
               /\ (\A other \in Range(heap) \ {e} : p < val[other]) =>
                      /\ idx_of_element'[e] = 0
                      /\ peek(heap', idx_of_element', val').ret = <<e>>]_vars

\* decrease_key succeeded and left its element below the root.
C15_Witness ==
    /\ op = "decrease_key" /\ raised = ""
    /\ val[arg[1]] = arg[2]
    /\ idx_of_element[arg[1]] > 0
    /\ Len(heap) = MaxNodes

\* C17: in every run configuration, python -O included, a decrease_key(e, p) with
\* e absent or p not below e's priority leaves e's priority as it was and the
\* heap order intact.
C17_AlwaysEnforced ==
    [][(/\ op' = "decrease_key"
        /\ (arg'[1] \notin Range(heap) \/ arg'[2] >= val[arg'[1]])) =>
           /\ val'[arg'[1]] = val[arg'[1]]
           /\ C1_HeapOrder']_vars

\* C18: distinct elements of equal priority that are in the heap each hold one
\* slot of the list and an index entry of their own, and a run of remove() calls
\* that empties the heap has returned each of them exactly once.
C18_TiesKept ==
    /\ \A e \in present :
           /\ Cardinality({i \in DOMAIN heap : heap[i] = e}) = 1
           /\ e \in DOMAIN idx_of_element
    /\ \A e1, e2 \in present :
           (e1 # e2 /\ val[e1] = val[e2]) => idx_of_element[e1] # idx_of_element[e2]
    /\ (pure /\ heap = <<>>) =>
           \A e \in Range(input) :
               Cardinality({i \in DOMAIN extracted : extracted[i] = e}) = 1

\* A full heap of elements that all have the same priority was emptied by removes.
C18_Witness ==
    /\ pure /\ heap = <<>>
    /\ Len(extracted) = MaxNodes
    /\ \A i, j \in DOMAIN extracted : val[extracted[i]] = val[extracted[j]]

\* The children of a slot that are in the list and strictly below its priority.
SmallerChildren(slot, a) ==
    {c \in {2 * slot + 1, 2 * slot + 2} : c < Len(a) /\ val[At(a, c)] < val[At(a, slot)]}

\* The slot sift_down is to swap with: the strictly smaller child of least
\* priority, the left one when both are equal; the slot itself when there is none.
ExpectedChoice(slot, a) ==
    IF SmallerChildren(slot, a) = {} THEN slot
    ELSE CHOOSE c \in SmallerChildren(slot, a) :
             \A d \in SmallerChildren(slot, a) :
                 \/ val[At(a, c)] < val[At(a, d)]
                 \/ (val[At(a, c)] = val[At(a, d)] /\ c <= d)

\* C19: on every list the constructor is given and at every slot of it, sift_down
\* swaps the slot with the child ExpectedChoice names, and swaps nothing when that
\* is the slot itself.
C19_SiftDownChoice ==
    op = "__init__" =>
        \A slot \in 0..(Len(input) - 1) :
            LET o == sift_down(slot, input, enumerate_into(input, 0, EmptyDict), val)
            IN  /\ smallest_of(slot, input, val) = ExpectedChoice(slot, input)
                /\ At(o.array, slot) = At(input, ExpectedChoice(slot, input))
                /\ ExpectedChoice(slot, input) = slot => o.array = input

\* The root of a full list has two children of equal priority below its own.
C19_Witness ==
    /\ op = "__init__"
    /\ Len(input) = MaxNodes
    /\ val[At(input, 1)] = val[At(input, 2)]
    /\ val[At(input, 1)] < val[At(input, 0)]
    /\ At(heap, 0) = At(input, 1)

\* C16: after any adds and removes on a LinkedList, len() is the number of Node
\* objects reachable from head, which is the number of adds minus the number of
\* removes made on a non-empty list; remove on an empty list returns None and
\* leaves the length at 0.
C16_ListLength ==
    /\ [](/\ list_len = Reachable(head, cells)
          /\ list_len = adds - removes)
    /\ [][(list_op' = "remove" /\ list_is_empty(head)) =>
              (list_ret' = <<>> /\ list_len' = 0 /\ list_is_empty(head'))]_vars

\* A remove on a list that adds and removes had emptied returned None.
C16_Witness ==
    /\ list_op = "remove" /\ list_ret = <<>>
    /\ adds >= 2 /\ removes = adds
    /\ list_len = 0

----------------------------------------------------------------------------
(* Properties of calls executed statement by statement. *)

\* Every thread's call has returned or raised.
AllReturned == \A t \in Threads : threads[t].pc = "done"

\* Some Node of the list or of the dict for which heap[idx_of_element[e]] is not e.
IndexCorrupt ==
    \E e \in Range(heap) \cup DOMAIN idx_of_element :
        ~(/\ e \in DOMAIN idx_of_element
          /\ InList(idx_of_element[e])
          /\ At(heap, idx_of_element[e]) = e)

\* C13: when every call runs under one lock guarding the whole heap, no state
\* after both calls have finished has heap[idx_of_element[e]] other than e;
\* without the lock, interleaved store by store, such a state is reachable (the
\* witness).
C13_SerializedCalls == (locked /\ AllReturned) => ~IndexCorrupt

\* Without a lock both calls returned normally, and the dict sends some Node to
\* a slot that holds another Node.
C13_Witness ==
    /\ ~locked
    /\ AllReturned
    /\ \A t \in Threads : threads[t].exc = ""
    /\ \E e \in DOMAIN idx_of_element :
           /\ InList(idx_of_element[e])
           /\ At(heap, idx_of_element[e]) # e

\* The number of ancestors of a slot: its depth in the tree.
Ancestors(slot) == Cardinality(AncestorsOrSelf(slot)) - 1

\* The methods that sift up, and those that sift down.
SiftsUp(me) == me.op \in {"insert", "decrease_key"}

SiftsDown(me) == me.op \in {"remove", "build"}

\* C20: every call of build_heap, insert, remove and decrease_key terminates; a
\* sift_up started at slot i stays on the path from i to slot 0 and makes at most
\* as many swaps as i has ancestors; a sift_down is at a strictly larger slot
\* after every swap and makes at most as many swaps as the heap is high.
C20_Termination ==
    /\ <>AllReturned
    /\ [](\A t \in Threads :
              LET me == threads[t]
              IN  /\ SiftsUp(me) =>
                         /\ me.swaps <= Ancestors(me.start)
                         /\ me.i \in AncestorsOrSelf(me.start)
                         /\ me.i >= 0
                  /\ SiftsDown(me) => me.swaps <= Ancestors(Len(heap) - 1))
    /\ [][\A t \in Threads :
              (SiftsDown(threads[t]) /\ threads'[t].swaps = threads[t].swaps + 1) =>
                  threads'[t].i > threads[t].i]_vars

\* An insert returned after as many swaps as its slot has ancestors, two, its
\* sift_up having stopped at slot 0.
C20_Witness ==
    /\ AllReturned
    /\ threads[1].op = "insert"
    /\ threads[1].exc = ""
    /\ threads[1].start = 4
    /\ threads[1].swaps = Ancestors(threads[1].start)
    /\ threads[1].i = 0

----------------------------------------------------------------------------
(* Exhaustion, the element remove() takes, and what insert and decrease_key   *)
(* leave alone.                                                               *)

\* n consecutive remove() calls, stopping at the first that raises.
RECURSIVE remove_times(_, _, _, _)
remove_times(n, array, dict, v) ==
    IF n = 0 THEN Result(array, dict, v, <<>>, "")
    ELSE LET r == remove(array, dict, v)
         IN  IF r.raised # "" THEN r
             ELSE remove_times(n - 1, r.heap, r.idx_of_element, r.val)

\* C21: from every reachable state whose heap holds n elements, n consecutive
\* remove() calls all return; is_empty() is then True and the index has no
\* entries, and the remove() after them raises.
C21_Exhaustion ==
    LET r == remove_times(Len(heap), heap, idx_of_element, val)
    IN  /\ r.raised = ""
        /\ is_empty(r.heap)
        /\ DOMAIN r.idx_of_element = {}
        /\ remove(r.heap, r.idx_of_element, r.val).raised # ""

\* As many remove() calls as the constructor was given elements, at least two,
\* all returned: the heap and the index are empty.
C21_Witness ==
    /\ pure
    /\ op = "remove"
    /\ raised = ""
    /\ Len(input) >= 2
    /\ Len(extracted) = Len(input)
    /\ heap = <<>>
    /\ DOMAIN idx_of_element = {}

\* C22: remove() on a non-empty heap returns the element peek() returns right
\* before the call, takes exactly that element out, and keeps every other element
\* in the heap with its priority.
C22_RemoveReturnsPeek ==
    [][(op' = "remove" /\ heap # <<>>) =>
           /\ raised' = ""
           /\ ret' = peek(heap, idx_of_element, val).ret
           /\ Len(ret') = 1
           /\ Range(heap') = Range(heap) \ Range(ret')
           /\ Len(heap') = Len(heap) - 1
           /\ val' = val]_vars

\* A remove returned the root of a heap of three and left the two others.
C22_Witness ==
    /\ op = "remove"
    /\ raised = ""
    /\ Len(ret) = 1
    /\ Len(heap) = 2
    /\ ret[1] \notin Range(heap)
    /\ \A n \in Range(heap) : val[ret[1]] <= val[n]

\* C23: a decrease_key(e, p) that returns changes the priority of e only and
\* leaves the set of elements in the heap as it was; an insert(e) that returns
\* makes the set of elements the old set plus e and changes no priority.
C23_Frame ==
    [][/\ (op' = "decrease_key" /\ raised' = "") =>
              /\ Range(heap') = Range(heap)
              /\ Len(heap') = Len(heap)
              /\ val'[arg'[1]] = arg'[2]
              /\ \A n \in DOMAIN val \ {arg'[1]} : val'[n] = val[n]
       /\ (op' = "insert" /\ raised' = "") =>
              /\ Range(heap') = Range(heap) \cup {arg'[1]}
              /\ Len(heap') = Len(heap) + 1
              /\ val' = val]_vars

\* A decrease_key returned after moving its element from the last slot of a
\* heap of three to the root.
C23_Witness ==
    /\ op = "decrease_key"
    /\ raised = ""
    /\ Len(heap) = 3
    /\ heap[1] = arg[1]
    /\ \E n \in Range(heap) \ {arg[1]} : val[n] > arg[2]

----------------------------------------------------------------------------
(* Inserting an element that is in the heap already. *)

\* The slots of the list that hold Node e.
SlotsOf(e, array) == {k \in 0..(Len(array) - 1) : At(array, k) = e}

\* The list holds no Node twice and the index maps exactly its Nodes to their slots.
WellFormed ==
    /\ \A e \in Range(heap) : Cardinality(SlotsOf(e, heap)) = 1
    /\ DOMAIN idx_of_element = Range(heap)
    /\ \A e \in Range(heap) : SlotsOf(e, heap) = {idx_of_element[e]}

\* C24: insert(e) of an element e that a well-formed heap already holds returns
\* without error; the list then holds e in two slots while the index keeps its
\* single entry for e, so the index has fewer entries than the list has slots.
\* (That a later remove() can raise KeyError is the witness.)
C24_DuplicateInsert ==
    [][(op' = "insert" /\ arg'[1] \in Range(heap) /\ WellFormed) =>
           /\ raised' = ""
           /\ Cardinality(SlotsOf(arg'[1], heap')) = 2
           /\ DOMAIN idx_of_element' = DOMAIN idx_of_element
           /\ Cardinality(DOMAIN idx_of_element') < Len(heap')
           /\ val' = val]_vars

\* A remove() raised KeyError: the list still holds a Node the index has no
\* entry for, the entry having gone with the Node's other copy.
C24_Witness ==
    /\ op = "remove"
    /\ raised = "KeyError"
    /\ \E e \in Range(heap) : e \notin DOMAIN idx_of_element

----------------------------------------------------------------------------
(* Index arithmetic. *)

\* C25: for every slot i >= 0 the parent of i's left child and of i's right child
\* is i, and get_parent_idx(0) is negative (-1 by floor division): a sift_up at
\* slot 0 returns without a store, and build_heap of an empty or one-element list
\* runs no sift_down.
C25_IndexArithmetic ==
    /\ \A i \in 0..MaxSlot :
           /\ get_parent_idx(get_left_child_idx(i)) = i
           /\ get_parent_idx(get_right_child_idx(i)) = i
    /\ get_parent_idx(0) < 0
    /\ get_parent_idx(0) = -1
    /\ \A t \in Threads :
           LET me == threads[t]
           IN  /\ (SiftsUp(me) /\ me.pc = "up_test" /\ me.i = 0) =>
                      /\ ThreadStep(me).me.pc = "done"
                      /\ ThreadStep(me).me.exc = ""
                      /\ ThreadStep(me).heap = heap
                      /\ ThreadStep(me).idx_of_element = idx_of_element
               /\ (me.op = "build" /\ Len(heap) <= 1) =>
                      /\ me.pc \in {"build", "done"}
                      /\ me.swaps = 0
                      /\ MinHeap_init(input, val).array = input

\* A decrease_key of the root of a heap of several elements returned: its sift_up
\* began at slot 0 and made no swap.
C25_Witness ==
    /\ AllReturned
    /\ threads[1].op = "decrease_key"
    /\ threads[1].exc = ""
    /\ Len(heap) >= 2
    /\ threads[1].start = 0
    /\ threads[1].i = 0
    /\ threads[1].swaps = 0
    /\ At(heap, 0) = threads[1].key

====
